---- MODULE Spec2Model ----
(***************************************************************************)
(* HorridRing<T>: a fixed-capacity ring buffer with a read cursor, a write *)
(* cursor and one 8-bit wrap counter ("epoch") per cursor (src/lib.rs).    *)
(* The element type is u8, the instance that also has Read and Write.      *)
(***************************************************************************)
EXTENDS Integers, Sequences, FiniteSets, TLC

\* ---------------------------------------------------------------- bounds
\* Largest capacity a buffer is constructed with.
MaxCap == 3
\* The environment pushes only while the writer is fewer than MaxLag slots
\* ahead of the reader (two full laps of the largest buffer, plus one).
MaxLag == 7
\* Pushes the environment issues in all under Spec.
MaxPush == 7
\* Longest destination slice handed to read.
MaxDst == 4
\* Longest source slice handed to write.
MaxSrc == 3

\* ------------------------------------------------------ program constants
\* read_wrap and write_wrap are u8: wrapping_add works modulo 2^8.
U8 == 256

\* A storage slot that no push has written yet: not a byte.
Uninit == 0 - 1
\* The byte a destination slice is filled with before read is called.
Fill == 0
\* budget value of an environment that pushes without limit.
Unlimited == 0 - 1

\* Option<T>
None == << >>
Some(v) == << v >>

VARIABLES
  \* the fields of HorridRing
  read, write, write_wrap, read_wrap, inner, capacity,
  \* a panic has unwound out of an operation
  panicked,
  \* observation: the reference bounded FIFO, the state of each slot, whether
  \* an unread value was overwritten since construction or the last clear
  fifo, slots, overrun,
  \* observation: the next byte the caller pushes, the pushes it may still
  \* issue, the shape of the call history, the last call and what it returned
  seq, budget, shape, last,
  \* observation: the age of the newest value a catch-up jump has returned,
  \* and the wraps of the write index since construction or the last clear
  floor, wraps

vars == << read, write, write_wrap, read_wrap, inner, capacity, panicked,
           fifo, slots, overrun, seq, budget, shape, last, floor, wraps >>

\* The buffer as one value.
self == [read |-> read, write |-> write, write_wrap |-> write_wrap,
         read_wrap |-> read_wrap, inner |-> inner, capacity |-> capacity]

\* ------------------------------------------------------------ operations

with_capacity(cap) ==
  [read |-> 0, write |-> 0, write_wrap |-> 0, read_wrap |-> 0,
   inner |-> [i \in 0..(cap - 1) |-> Uninit], capacity |-> cap]

\* A slip: the epoch counter saturates at 255 instead of wrapping to 0.
saturating_add(x, y) == IF x + y > U8 - 1 THEN U8 - 1 ELSE x + y

wrapping_add(x, y) == (x + y) % U8

\* A slip: the write index wraps one slot late, at capacity + 1.
push_modulus_off(rb, val) ==
  LET w == (rb.write + 1) % (rb.capacity + 1)
  IN [rb EXCEPT !.inner = [rb.inner EXCEPT ![rb.write] = val],
                !.write = w,
                !.write_wrap = IF w = 0 THEN (rb.write_wrap + 1) % U8
                               ELSE rb.write_wrap]

\* A slip: the write index wraps and the write epoch is not incremented.
push_no_epoch(rb, val) ==
  [rb EXCEPT !.inner = [rb.inner EXCEPT ![rb.write] = val],
             !.write = (rb.write + 1) % rb.capacity]

push(rb, val) ==
  LET w == (rb.write + 1) % rb.capacity
  IN [rb EXCEPT !.inner = [rb.inner EXCEPT ![rb.write] = val],
                !.write = w,
                !.write_wrap = IF w = 0 THEN wrapping_add(rb.write_wrap, 1)
                               ELSE rb.write_wrap]

\* A slip: one of the four fields, read_wrap, is not reset.
clear_keeps_read_wrap(rb) ==
  [rb EXCEPT !.write = 0, !.read = 0, !.write_wrap = 0]

clear(rb) ==
  [rb EXCEPT !.write = 0, !.read = 0, !.write_wrap = 0, !.read_wrap = 0]

\* A slip: the empty test compares the indices and not the epochs.
is_empty_index_only(rb) == rb.read = rb.write

\* The test of line 67: the buffer reports itself empty.
is_empty(rb) == rb.read_wrap = rb.write_wrap /\ rb.read = rb.write

\* A slip: the epochs are compared with <= instead of <.
catch_up_le(rb) == rb.read_wrap <= rb.write_wrap /\ rb.read < rb.write

\* A slip: the catch-up jump is never taken.
catch_up_never(rb) == FALSE

\* The test of line 71: the catch-up jump is taken.
catch_up(rb) == rb.read_wrap < rb.write_wrap /\ rb.read < rb.write

\* The trace entry of one call of next that returned a value: the slot it
\* read, the value, and whether the catch-up jump fired.
Entry(r) == [at |-> r.at, val |-> r.item[1], jumped |-> r.jumped]

\* A slip: the cursor is advanced before the empty test, so that a call
\* that returns None still moves the read index.
next_advance_on_empty(rb, junk) ==
  LET r1 == (rb.read + 1) % rb.capacity
  IN IF is_empty(rb)
     THEN [rb |-> [rb EXCEPT !.read = r1], item |-> None, at |-> 0 - 1,
           jumped |-> FALSE]
     ELSE [rb |-> [rb EXCEPT !.read = r1,
                             !.read_wrap = IF r1 = 0
                                           THEN (rb.read_wrap + 1) % U8
                                           ELSE rb.read_wrap],
           item |-> Some(rb.inner[rb.read]), at |-> rb.read, jumped |-> FALSE]

\* A slip: the jump is taken but the value is read at the old read index and
\* the read index advanced from there.
next_stale_jump(rb, junk) ==
  IF is_empty(rb)
  THEN [rb |-> rb, item |-> None, at |-> 0 - 1, jumped |-> FALSE]
  ELSE LET r1 == (rb.read + 1) % rb.capacity
       IN [rb |-> [rb EXCEPT !.read = r1,
                             !.read_wrap = IF r1 = 0
                                           THEN (rb.read_wrap + 1) % U8
                                           ELSE rb.read_wrap],
           item |-> Some(IF rb.inner[rb.read] = Uninit THEN junk
                         ELSE rb.inner[rb.read]),
           at |-> rb.read, jumped |-> catch_up(rb)]

\* A slip: the read epoch is not incremented when the read index wraps.
next_no_epoch(rb, junk) ==
  IF is_empty(rb)
  THEN [rb |-> rb, item |-> None, at |-> 0 - 1, jumped |-> FALSE]
  ELSE LET jump == catch_up(rb)
           r0 == IF jump THEN rb.write ELSE rb.read
       IN [rb |-> [rb EXCEPT !.read = (r0 + 1) % rb.capacity],
           item |-> Some(IF rb.inner[r0] = Uninit THEN junk ELSE rb.inner[r0]),
           at |-> r0, jumped |-> jump]

\* Iterator::next. junk is what a read of a never-written slot yields.
\* at is the slot read (-1: none) and jumped whether the catch-up jump fired.
next(rb, junk) ==
  IF is_empty(rb)
  THEN [rb |-> rb, item |-> None, at |-> 0 - 1, jumped |-> FALSE]
  ELSE LET jump == catch_up(rb)
           r0 == IF jump THEN rb.write ELSE rb.read
           p == IF rb.inner[r0] = Uninit THEN junk ELSE rb.inner[r0]
           r1 == (r0 + 1) % rb.capacity
       IN [rb |-> [rb EXCEPT !.read = r1,
                             !.read_wrap = IF r1 = 0
                                           THEN wrapping_add(rb.read_wrap, 1)
                                           ELSE rb.read_wrap],
           item |-> Some(p), at |-> r0, jumped |-> jump]

\* Iterator::collect: next until None. tr lists the slot each call read.
RECURSIVE collect(_, _, _, _)
collect(rb, junk, out, tr) ==
  LET r == next(rb, junk)
  IN IF r.item = None
     THEN [rb |-> r.rb, out |-> out, tr |-> tr]
     ELSE collect(r.rb, junk, Append(out, r.item[1]),
                  Append(tr, Entry(r)))

drain(rb, junk) ==
  LET c == collect(rb, junk, << >>, << >>)
  IN [rb |-> clear(c.rb), out |-> c.out, tr |-> c.tr]

\* Read::read: the while-let loop from index on. buf[index] is checked: an
\* index outside the slice panics after next has already consumed the value.
RECURSIVE read_loop(_, _, _, _, _)
read_loop(rb, junk, buf, index, tr) ==
  LET r == next(rb, junk)
      tr1 == IF r.item = None THEN tr ELSE Append(tr, Entry(r))
  IN IF r.item = None
     THEN [rb |-> r.rb, buf |-> buf, n |-> index, tr |-> tr, panic |-> FALSE]
     ELSE IF index >= Len(buf)
     THEN [rb |-> r.rb, buf |-> buf, n |-> index, tr |-> tr1, panic |-> TRUE]
     ELSE LET buf1 == [buf EXCEPT ![index + 1] = r.item[1]]
          IN IF index + 1 = Len(buf)
             THEN [rb |-> r.rb, buf |-> buf1, n |-> index + 1, tr |-> tr1,
                   panic |-> FALSE]
             ELSE read_loop(r.rb, junk, buf1, index + 1, tr1)

\* A slip: the loop tests the length only after the next call of next, so a
\* read that fills the destination pops one value more and drops it.
Read_read_overpop(rb, junk, buf) ==
  LET r == read_loop(rb, junk, buf, 0, << >>)
  IN IF r.n = Len(buf) /\ ~r.panic
     THEN [r EXCEPT !.rb = next(r.rb, junk).rb]
     ELSE r

\* A slip: read returns the length of the destination, as write returns the
\* length of the source.
Read_read_len(rb, junk, buf) ==
  [read_loop(rb, junk, buf, 0, << >>) EXCEPT !.n = Len(buf)]

Read_read(rb, junk, buf) == read_loop(rb, junk, buf, 0, << >>)

\* Write::write: push every byte, return the length. ws lists the slot each
\* push wrote.
RECURSIVE write_loop(_, _, _, _)
write_loop(rb, buf, i, ws) ==
  IF i > Len(buf)
  THEN [rb |-> rb, n |-> Len(buf), ws |-> ws]
  ELSE write_loop(push(rb, buf[i]), buf, i + 1, Append(ws, rb.write))

Write_write(rb, buf) == write_loop(rb, buf, 1, << >>)

\* ----------------------------------------------------------- observation

\* How far the write cursor is ahead of the read cursor, in slots, counted
\* the way the cursors count: index plus capacity times epoch, modulo the
\* range of the epoch counter.
Lag(rb) ==
  ((rb.write_wrap * rb.capacity + rb.write)
     - (rb.read_wrap * rb.capacity + rb.read)) % (U8 * rb.capacity)

\* The environment may issue n more pushes.
CanPush(n) ==
  /\ budget = Unlimited \/ budget >= n
  /\ Lag(self) + n <= MaxLag

Spend(n) == IF budget = Unlimited THEN budget ELSE budget - n

\* An environment that pushes without limit stops pushing at the first
\* reset of the cursors: what follows a reset is what follows construction.
AfterReset == IF budget = Unlimited THEN 0 ELSE budget

\* The i-th byte (from 1) the caller pushes from now on: the bytes pushed
\* count up from 0 through all the values of a u8, so that the values inside
\* any window the writer can be ahead by are pairwise distinct.
Byte(i) == (seq + i - 1) % U8

\* What a read of a never-written slot may yield: any byte; one choice when
\* every slot has been written.
JunkOf(rb) ==
  IF \E i \in DOMAIN rb.inner : rb.inner[i] = Uninit THEN {0, U8 - 1} ELSE {0}

\* The reference bounded FIFO, which is given the calls of push and next the
\* buffer is given: push appends and drops the head when the length would
\* exceed the capacity, next removes the head.
RefPush(q, cap, v) == IF Len(q) >= cap THEN Append(Tail(q), v) ELSE Append(q, v)
RefNext(q) == IF q = << >> THEN q ELSE Tail(q)

RECURSIVE RefWrite(_, _, _, _)
RefWrite(q, cap, buf, i) ==
  IF i > Len(buf) THEN q ELSE RefWrite(RefPush(q, cap, buf[i]), cap, buf, i + 1)

RECURSIVE RefDrop(_, _)
RefDrop(q, n) == IF n = 0 \/ q = << >> THEN q ELSE RefDrop(Tail(q), n - 1)

\* Slot states after the reads of tr: a slot read by next is moved out.
RECURSIVE SlotsAfterReads(_, _, _)
SlotsAfterReads(sl, tr, i) ==
  IF i > Len(tr) THEN sl
  ELSE SlotsAfterReads([sl EXCEPT ![tr[i].at] = "moved"], tr, i + 1)

\* Slot states after the pushes that wrote the slots ws.
RECURSIVE SlotsAfterWrites(_, _, _)
SlotsAfterWrites(sl, ws, i) ==
  IF i > Len(ws) THEN sl
  ELSE SlotsAfterWrites([sl EXCEPT ![ws[i]] = "full"], ws, i + 1)

\* Some read of tr found its slot in state st (the earlier reads of tr
\* counted).
RECURSIVE ReadsSlotIn(_, _, _, _)
ReadsSlotIn(sl, tr, i, st) ==
  IF i > Len(tr) THEN FALSE
  ELSE \/ sl[tr[i].at] = st
       \/ ReadsSlotIn([sl EXCEPT ![tr[i].at] = "moved"], tr, i + 1, st)

Jumped(tr) == \E i \in 1..Len(tr) : tr[i].jumped

\* The age of a byte: the pushes issued since it was pushed (the bytes pushed
\* count up modulo 2^8). The age of the newest value a catch-up jump has
\* returned is counted up to FloorCap, which is more than the age of any value
\* pushed under Spec, and is FloorCap as long as no jump has fired. It is
\* observed only while the pushes are limited: without a limit the byte
\* values come round again and say nothing about the age.
Age(val) == (seq - 1 - val) % U8
FloorCap == MaxPush + 1
Older(fl, n) == IF fl + n > FloorCap THEN FloorCap ELSE fl + n

\* The age of the newest value a catch-up jump has returned, after the reads
\* of tr.
RECURSIVE FloorAfter(_, _, _)
FloorAfter(fl, tr, i) ==
  IF i > Len(tr) \/ budget = Unlimited THEN fl
  ELSE FloorAfter(IF tr[i].jumped /\ Age(tr[i].val) < fl THEN Age(tr[i].val)
                  ELSE fl, tr, i + 1)

\* Some read of tr returned a value older than one an earlier catch-up jump
\* had returned.
RECURSIVE ReturnsOlder(_, _, _)
ReturnsOlder(fl, tr, i) ==
  IF i > Len(tr) THEN FALSE
  ELSE \/ Age(tr[i].val) > fl
       \/ ReturnsOlder(IF tr[i].jumped /\ Age(tr[i].val) < fl
                       THEN Age(tr[i].val) ELSE fl, tr, i + 1)

\* The pushes among those that wrote the slots ws which wrapped the write
\* index to 0, added to n and counted up to the range of the epoch counter.
RECURSIVE WrapsAfter(_, _, _)
WrapsAfter(n, ws, i) ==
  IF i > Len(ws) THEN n
  ELSE WrapsAfter(IF ws[i] = capacity - 1 /\ n < U8 THEN n + 1 ELSE n, ws, i + 1)

\* The record of a call: what it was given, what it returned, and the
\* observation just before it.
Call(op, item, out, n, buf, tr, panic) ==
  [op |-> op, item |-> item, out |-> out, n |-> n, buf |-> buf, tr |-> tr,
   panic |-> panic, pre |-> fifo, pre_overrun |-> overrun,
   pre_empty |-> is_empty(self), pre_read_wrap |-> read_wrap,
   pre_write_wrap |-> write_wrap,
   older |-> ReturnsOlder(floor, tr, 1),
   reread |-> ReadsSlotIn(slots, tr, 1, "moved"),
   rduninit |-> ReadsSlotIn(slots, tr, 1, "uninit")]

\* The call history since construction: only pushes (P), pushes then only
\* next calls, at most one more than the pushes (PN), pushes then one drain
\* (PD), anything else (X). np and nn count the pushes and the next calls,
\* one says that the pushes were those of a single write call.
ShapeNew == [kind |-> "P", np |-> 0, nn |-> 0, one |-> FALSE]
ShapeX == [kind |-> "X", np |-> 0, nn |-> 0, one |-> FALSE]

Commit(rb) ==
  /\ read' = rb.read
  /\ write' = rb.write
  /\ write_wrap' = rb.write_wrap
  /\ read_wrap' = rb.read_wrap
  /\ inner' = rb.inner
  /\ capacity' = rb.capacity

\* ---------------------------------------------------------------- actions

InitCap(cap) ==
  LET rb == with_capacity(cap)
  IN /\ read = rb.read
     /\ write = rb.write
     /\ write_wrap = rb.write_wrap
     /\ read_wrap = rb.read_wrap
     /\ inner = rb.inner
     /\ capacity = rb.capacity
     /\ panicked = FALSE
     /\ fifo = << >>
     /\ slots = [i \in 0..(cap - 1) |-> "uninit"]
     /\ overrun = FALSE
     /\ seq = 0
     /\ shape = ShapeNew
     /\ last = [op |-> "new", item |-> None, out |-> << >>, n |-> 0,
                buf |-> << >>, tr |-> << >>, panic |-> FALSE, pre |-> << >>,
                pre_overrun |-> FALSE, pre_empty |-> TRUE, pre_read_wrap |-> 0,
                pre_write_wrap |-> 0, older |-> FALSE, reread |-> FALSE,
                rduninit |-> FALSE]
     /\ floor = FloorCap
     /\ wraps = 0

Init == \E cap \in 1..MaxCap : InitCap(cap) /\ budget = MaxPush

InitEpoch == \E cap \in 1..MaxCap : InitCap(cap) /\ budget = Unlimited

Push ==
  /\ ~panicked
  /\ CanPush(1)
  /\ LET val == Byte(1)
     IN /\ Commit(push(self, val))
        /\ fifo' = RefPush(fifo, capacity, val)
        /\ overrun' = (overrun \/ Len(fifo) >= capacity)
        /\ slots' = [slots EXCEPT ![write] = "full"]
        /\ seq' = (seq + 1) % U8
        /\ budget' = Spend(1)
        /\ shape' = IF shape.kind = "P"
                    THEN [shape EXCEPT !.np = @ + 1, !.one = FALSE]
                    ELSE ShapeX
        /\ last' = Call("push", None, << >>, 0, << >>, << >>, FALSE)
        /\ wraps' = WrapsAfter(wraps, << write >>, 1)
        /\ floor' = Older(floor, 1)
  /\ UNCHANGED panicked

Pop ==
  /\ ~panicked
  /\ \E junk \in JunkOf(self) :
       LET r == next(self, junk)
           tr == IF r.item = None THEN << >>
                 ELSE << Entry(r) >>
       IN /\ Commit(r.rb)
          /\ fifo' = RefNext(fifo)
          /\ slots' = SlotsAfterReads(slots, tr, 1)
          /\ shape' = IF shape.kind \in {"P", "PN"} /\ shape.nn <= shape.np
                      THEN [shape EXCEPT !.kind = "PN", !.nn = @ + 1]
                      ELSE ShapeX
          /\ last' = Call("next", r.item, << >>, 0, << >>, tr, FALSE)
          /\ floor' = FloorAfter(floor, tr, 1)
  /\ UNCHANGED << panicked, overrun, seq, budget, wraps >>

Clear ==
  /\ ~panicked
  /\ Commit(clear(self))
  /\ fifo' = << >>
  /\ overrun' = FALSE
  /\ shape' = ShapeX
  /\ last' = Call("clear", None, << >>, 0, << >>, << >>, FALSE)
  /\ budget' = AfterReset
  /\ wraps' = 0
  /\ UNCHANGED << panicked, slots, seq, floor >>

Drain ==
  /\ ~panicked
  /\ \E junk \in JunkOf(self) :
       LET d == drain(self, junk)
       IN /\ Commit(d.rb)
          /\ fifo' = << >>
          /\ overrun' = FALSE
          /\ slots' = SlotsAfterReads(slots, d.tr, 1)
          /\ shape' = IF shape.kind = "P" THEN [shape EXCEPT !.kind = "PD"]
                      ELSE ShapeX
          /\ last' = Call("drain", None, d.out, 0, << >>, d.tr, FALSE)
          /\ floor' = FloorAfter(floor, d.tr, 1)
  /\ budget' = AfterReset
  /\ wraps' = 0
  /\ UNCHANGED << panicked, seq >>

ReadCall ==
  /\ ~panicked
  /\ \E len \in 0..MaxDst : \E junk \in JunkOf(self) :
       LET r == Read_read(self, junk, [i \in 1..len |-> Fill])
       IN /\ Commit(r.rb)
          /\ panicked' = r.panic
          /\ fifo' = RefDrop(fifo, Len(r.tr))
          /\ slots' = SlotsAfterReads(slots, r.tr, 1)
          /\ shape' = ShapeX
          /\ last' = Call("read", None, << >>, r.n, r.buf, r.tr, r.panic)
          /\ floor' = FloorAfter(floor, r.tr, 1)
  /\ UNCHANGED << overrun, seq, budget, wraps >>

WriteCall ==
  /\ ~panicked
  /\ \E len \in 0..MaxSrc :
       /\ CanPush(len)
       /\ LET buf == [i \in 1..len |-> Byte(i)]
              w == Write_write(self, buf)
          IN /\ Commit(w.rb)
             /\ fifo' = RefWrite(fifo, capacity, buf, 1)
             /\ overrun' = (overrun \/ Len(fifo) + len > capacity)
             /\ slots' = SlotsAfterWrites(slots, w.ws, 1)
             /\ seq' = (seq + len) % U8
             /\ budget' = Spend(len)
             /\ shape' = IF shape.kind = "P"
                         THEN [shape EXCEPT !.np = @ + len,
                                            !.one = (shape.np = 0 /\ ~shape.one)]
                         ELSE ShapeX
             /\ last' = Call("write", None, << >>, w.n, buf, << >>, FALSE)
             /\ wraps' = WrapsAfter(wraps, w.ws, 1)
             /\ floor' = Older(floor, len)
  /\ UNCHANGED panicked

Next == Push \/ Pop \/ Clear \/ Drain \/ ReadCall \/ WriteCall

\* Every operation, with at most MaxPush pushes in all.
Spec == Init /\ [][Next]_vars

\* The operations of the generic buffer, with no limit on the pushes: the
\* epoch counters run through all their values and overflow.
NextEpoch == Push \/ Pop \/ Clear \/ Drain

SpecEpoch == InitEpoch /\ [][NextEpoch]_vars

TypeOK ==
  /\ capacity \in 1..MaxCap
  /\ read \in 0..(capacity - 1)
  /\ write \in 0..(capacity - 1)
  /\ read_wrap \in 0..(U8 - 1)
  /\ write_wrap \in 0..(U8 - 1)

\* ----------------------------------------------------------------- claims

\* The bytes numbered from..to of those pushed since construction (the
\* first is number 1 and has the value 0).
Pushed(from, to) == [i \in 1..(to - from + 1) |-> from + i - 2]

Min(a, b) == IF a <= b THEN a ELSE b

\* C1 (as claimed): after any interleaving of the operations, drain returns
\* exactly the contents of the reference bounded FIFO, oldest first.
C1_DrainIsReferenceFifo == last.op = "drain" => last.out = last.pre

\* C2: on a new buffer of capacity C, after C+k pushes with 1 <= k < C, drain
\* returns exactly the last C values pushed, oldest first; and next returns
\* them one by one, then None.
C2_OverfillKeepsLastCapacity ==
  (shape.np > capacity /\ shape.np < 2 * capacity) =>
    /\ shape.kind = "PD" =>
         last.out = Pushed(shape.np - capacity + 1, shape.np)
    /\ (shape.kind = "PN" /\ last.op = "next") =>
         last.item = IF shape.nn <= capacity
                     THEN Some(shape.np - capacity + shape.nn - 1)
                     ELSE None

C2_Witness ==
  /\ capacity = 2
  /\ shape.kind = "PD"
  /\ shape.np = 3
  /\ last.out = << 1, 2 >>
  /\ Jumped(last.tr)

\* C3: on a new buffer of capacity C, after n pushes with 1 <= n <= C, the
\* i-th next returns the i-th value pushed for i <= n, and the (n+1)-th next
\* returns None.
C3_FillThenPopInOrder ==
  (shape.kind = "PN" /\ shape.np >= 1 /\ shape.np <= capacity
     /\ last.op = "next") =>
    last.item = IF shape.nn <= shape.np THEN Some(shape.nn - 1) ELSE None

C3_Witness ==
  /\ shape.kind = "PN"
  /\ shape.np = capacity
  /\ capacity = MaxCap
  /\ shape.nn = capacity + 1
  /\ last.item = None
  /\ write_wrap = 1

\* C4: as long as no unread value has been overwritten, every next returns
\* the oldest value pushed and not yet returned, None exactly when there is
\* none, and the catch-up jump does not fire; also after the epoch counters
\* have overflowed from 255 to 0.
C4_NoOverwriteFifo ==
  (last.op = "next" /\ ~overrun) =>
    /\ last.item = IF last.pre = << >> THEN None ELSE Some(Head(last.pre))
    /\ ~Jumped(last.tr)

\* A value is returned by the next that takes the read epoch from 255 to 0.
C4_Witness ==
  /\ last.op = "next"
  /\ ~overrun
  /\ last.item # None
  /\ last.pre_read_wrap = U8 - 1
  /\ read_wrap = 0
  /\ write_wrap = 0
  /\ Len(last.pre) = capacity
  /\ capacity = MaxCap

\* C5 (as claimed): on a new buffer of capacity C, after one write of n
\* bytes, drain returns exactly the last min(n, C) bytes of the source.
C5_WriteThenDrain ==
  (shape.kind = "PD" /\ shape.one) =>
    last.out = Pushed(shape.np - Min(shape.np, capacity) + 1, shape.np)

\* C6 (as claimed): next never reads a slot whose content an earlier next
\* has moved out, unless a push has rewritten the slot in between.
C6_MovedOutAtMostOnce == ~last.reread

\* C7 (as claimed): the cursors are equal (index and epoch) exactly when no
\* pushed value is pending.
C7_EmptyIffCursorsEqual == is_empty(self) <=> fifo = << >>

\* C8 (as claimed): read never panics, returns a count that is at most the
\* length of the destination, and with an empty destination returns 0 and
\* consumes nothing.
C8_ReadNeverFails ==
  last.op = "read" =>
    /\ ~last.panic
    /\ last.n <= Len(last.buf)
    /\ Len(last.buf) = 0 => (last.n = 0 /\ last.tr = << >>)

\* C9: read into a destination longer than the number a of unread bytes,
\* none of them overwritten: it returns a, the first a positions hold the
\* unread bytes in FIFO order, the others are unchanged, and the buffer is
\* empty afterwards.
C9_ReadAllAvailable ==
  (last.op = "read" /\ ~last.pre_overrun /\ Len(last.buf) > Len(last.pre)) =>
    /\ ~last.panic
    /\ last.n = Len(last.pre)
    /\ SubSeq(last.buf, 1, last.n) = last.pre
    /\ \A i \in (last.n + 1)..Len(last.buf) : last.buf[i] = Fill
    /\ is_empty(self)

C9_Witness ==
  /\ last.op = "read"
  /\ ~last.pre_overrun
  /\ capacity = MaxCap
  /\ Len(last.pre) = capacity
  /\ Len(last.buf) = capacity + 1
  /\ last.n = capacity
  /\ write_wrap = 2

\* C10: clear and drain set the four cursor fields to 0 and leave the
\* storage as it was, so that the next call of next returns None.
C10_ClearResets ==
  [][last'.op \in {"clear", "drain"} =>
       /\ read' = 0
       /\ write' = 0
       /\ read_wrap' = 0
       /\ write_wrap' = 0
       /\ inner' = inner
       /\ capacity' = capacity
       /\ \A junk \in JunkOf(self') : next(self', junk).item = None]_vars

\* clear was called with the write epoch overflowed past the read epoch and
\* an unread value overwritten.
C10_Witness ==
  /\ last.op = "clear"
  /\ last.pre_overrun
  /\ last.pre_write_wrap < last.pre_read_wrap
  /\ ~last.pre_empty
  /\ is_empty(self)

\* C11: on a new buffer next returns None; a next that returns None changes
\* no field; and after it every next returns None until a push: the state it
\* leaves is one in which next returns None.
C11_EmptyNextIsStable ==
  [][/\ last.op = "new" => \A junk \in JunkOf(self) : next(self, junk).item = None
     /\ (last'.op = "next" /\ last'.item = None) =>
          /\ self' = self
          /\ \A junk \in JunkOf(self') : next(self', junk).item = None]_vars

C11_Witness ==
  /\ last.op = "next"
  /\ last.item = None
  /\ last.pre_empty
  /\ read_wrap = 2
  /\ write_wrap = 2
  /\ shape.kind = "X"

\* C12: next never reads a storage slot that no push has written since
\* construction.
C12_NoUninitRead == ~last.rduninit

\* A value is read after a clear while a slot is still unwritten.
C12_Witness ==
  /\ last.op = "next"
  /\ last.item # None
  /\ slots[capacity - 1] = "uninit"
  /\ shape.kind = "X"
  /\ capacity = MaxCap
  /\ wraps = 0
  /\ ~last.pre_overrun

\* C13: a next called with read_wrap < write_wrap and read < write reads at
\* the write index, returns the value stored there, which is the least
\* recently pushed value in storage, and leaves read = (write + 1) mod
\* capacity with read_wrap incremented exactly when that is 0; and no next
\* returns a value older than one a jump returned before it.
C13_CatchUpJump ==
  [][/\ (last'.op = "next" /\ read_wrap < write_wrap /\ read < write) =>
          /\ Jumped(last'.tr)
          /\ Len(last'.tr) = 1
          /\ last'.tr[1].at = write
          /\ last'.item = Some(inner[write])
          /\ \A i \in DOMAIN inner :
               inner[i] # Uninit /\ Age(inner[i]) <= Age(inner[write])
          /\ read' = (write + 1) % capacity
          /\ read_wrap' = IF read' = 0 THEN (read_wrap + 1) % U8 ELSE read_wrap
          /\ write' = write
          /\ write_wrap' = write_wrap
          /\ inner' = inner
     /\ ~last'.older]_vars

C13_Witness ==
  /\ last.op = "next"
  /\ Jumped(last.tr)
  /\ capacity = MaxCap
  /\ read = 0
  /\ read_wrap = 1
  /\ floor < FloorCap

\* r is behind w in the wraparound-aware order of an 8-bit counter.
EpochBehind(r, w) == (w - r) % U8 \in 1..((U8 \div 2) - 1)

\* C14 (as claimed): a next called with the read epoch behind the write epoch
\* in the wraparound-aware order, and read < write, takes the catch-up jump.
C14_WrapAwareEpochOrder ==
  [][(last'.op = "next" /\ EpochBehind(read_wrap, write_wrap) /\ read < write)
       => Jumped(last'.tr)]_vars

\* C15 (as claimed): in every state, next called until it returns None yields
\* at most capacity values.
C15_DrainAtMostCapacity ==
  \A junk \in JunkOf(self) :
    Len(collect(self, junk, << >>, << >>).out) <= capacity

\* C16: read into a destination of length N with 1 <= N < a, a the number of
\* pending bytes, none overwritten: it returns N, the destination holds the N
\* oldest pending bytes in order, N values were popped, and the next calls
\* that follow return the other a - N bytes in order.
C16_PartialReadLosesNothing ==
  (last.op = "read" /\ ~last.pre_overrun /\ Len(last.buf) >= 1
     /\ Len(last.buf) < Len(last.pre)) =>
    /\ ~last.panic
    /\ last.n = Len(last.buf)
    /\ last.buf = SubSeq(last.pre, 1, last.n)
    /\ Len(last.tr) = last.n
    /\ \A junk \in JunkOf(self) :
         collect(self, junk, << >>, << >>).out
           = SubSeq(last.pre, last.n + 1, Len(last.pre))

C16_Witness ==
  /\ last.op = "read"
  /\ ~last.pre_overrun
  /\ capacity = MaxCap
  /\ Len(last.pre) = capacity
  /\ Len(last.buf) = capacity - 1
  /\ wraps = 2
  /\ ~is_empty(self)

\* next returns None after at most k calls that return a value.
RECURSIVE EmptyWithin(_, _)
EmptyWithin(rb, k) ==
  IF is_empty(rb) THEN TRUE
  ELSE IF k = 0 THEN FALSE
  ELSE EmptyWithin(next(rb, 0).rb, k - 1)

\* C17: from every state, with no push in between, next returns None after
\* finitely many calls: at most as many as the write cursor is ahead of the
\* read cursor.
C17_DrainTerminates == EmptyWithin(self, Lag(self))

\* The write epoch has overflowed past the read epoch and the writer is more
\* than a lap ahead.
C17_Witness ==
  /\ write_wrap < read_wrap
  /\ Lag(self) > capacity
  /\ capacity = MaxCap
  /\ last.op = "push"

\* C18: read and write stay in 0..capacity-1 and every slot next reads is in
\* that range; an epoch counter changes only by +1 modulo 2^8 in the push or
\* next that wraps its own index to 0, or to 0 in a clear or drain.
C18_IndexRange ==
  /\ [](/\ read \in 0..(capacity - 1)
        /\ write \in 0..(capacity - 1)
        /\ \A i \in 1..Len(last.tr) : last.tr[i].at \in 0..(capacity - 1))
  /\ [][/\ write_wrap' # write_wrap =>
             \/ /\ last'.op = "push"
                /\ write' = 0
                /\ write_wrap' = (write_wrap + 1) % U8
             \/ last'.op \in {"clear", "drain"} /\ write_wrap' = 0
        /\ read_wrap' # read_wrap =>
             \/ /\ last'.op = "next"
                /\ read' = 0
                /\ read_wrap' = (read_wrap + 1) % U8
             \/ last'.op \in {"clear", "drain"} /\ read_wrap' = 0
        /\ (last'.op = "push" /\ write' = 0) =>
             write_wrap' = (write_wrap + 1) % U8
        /\ (last'.op = "next" /\ last'.item # None /\ read' = 0) =>
             read_wrap' = (read_wrap + 1) % U8]_vars

\* The push that takes the write epoch from 255 to 0.
C18_Witness ==
  /\ last.op = "push"
  /\ write = 0
  /\ write_wrap = 0
  /\ last.pre_write_wrap = U8 - 1
  /\ capacity = 2

\* C19: with fewer than 256 wraps of the write index since construction or
\* the last clear, the absolute read position is at most the absolute write
\* position, read_wrap <= write_wrap, and next returns None exactly when the
\* two positions are equal.
C19_ReaderNeverPassesWriter ==
  wraps < U8 =>
    /\ read_wrap * capacity + read <= write_wrap * capacity + write
    /\ read_wrap <= write_wrap
    /\ \A junk \in JunkOf(self) :
         next(self, junk).item = None
           <=> read_wrap * capacity + read = write_wrap * capacity + write

C19_Witness ==
  /\ wraps = U8 - 1
  /\ write_wrap = U8 - 1
  /\ read_wrap = U8 - 2
  /\ read = write
  /\ capacity = MaxCap
  /\ last.op = "push"

====
